---- MODULE Spec2Model ----
(***************************************************************************)
(* Model of cbPyLib/cellbrowser/genes.py: the signature table builder      *)
(* (keepOnlyUnique, writeUniqs), the release guesser (guessGencode with    *)
(* guessGeneIdType, parseSignatures and guessGencodeVersion), the          *)
(* canonical transcript selector (iterGencodeBed) and the spatial index    *)
(* builder (bedToJson).                                                    *)
(*                                                                         *)
(* Python strings are sequences of one-character strings, so that join,    *)
(* split, int() and the < of strings and tuples are computed as Python     *)
(* computes them.                                                          *)
(***************************************************************************)
EXTENDS Integers, Sequences, FiniteSets, TLC

VARIABLES
    cmd,          \* the command cbGenesCli dispatched: "index" (whose table a
                  \* later "guess" reads), "guess" on the installed tables,
                  \* "locs" or "json"
    pc,           \* the next step of that command
    dictSet,      \* uniqueIds: release -> set of identifiers (allSyms / allIds)
    order,        \* iteration order of the release dict (a sequence of its keys)
    uniqVals,     \* keepOnlyUnique: release -> unique identifiers
    nCommon,      \* keepOnlyUnique: number of identifiers shared by all releases
    uniqFile,     \* the <org>.<type>.unique.tsv.gz file: a sequence of lines
    signGenes,    \* parseSignatures: release -> list of identifiers
    signOrder,    \* iteration order of the parsed dict
    fileGenes,    \* parseGenes: set of identifiers of the input gene list
    diffs,        \* guessGencodeVersion: the sorted (score, release) list
    bestVersion,  \* guessGencodeVersion: the returned release
    org,          \* guessGencode: the organism argument, None when not given
    geneIdType,   \* guessGeneIdType: the returned (organism, identifier type)
    universe,     \* parseSignatures: the (org, geneIdType) arguments
    printed,      \* guessGencode: the (org, bestVersion) it has printed
    compLines,    \* the lines of the wgEncodeGencodeComp table (downloadUrlLines)
    geneToTransList, \* iterGencodeBed: gene ID -> list of (score, row)
    canonRows,    \* iterGencodeBed: gene ID -> the canonTransRow picked for it
    bedRows,      \* the rows iterGencodeBed has yielded so far
    bedFile,      \* the <db>.<geneType>.bed file: a sequence of lines
    bySym,        \* bedToJson: symbol -> chromosome -> list of loci, sorted
    sortedLocs    \* bedToJson: chromosome -> sorted list of (start, end, strand, symbol)

guessVars == <<org, geneIdType, universe, printed>>

sigVars == <<dictSet, order, uniqVals, nCommon, uniqFile, signGenes, signOrder,
             fileGenes, diffs, bestVersion, guessVars>>

locVars == <<compLines, geneToTransList, canonRows, bedRows>>

jsonVars == <<bySym, sortedLocs>>

vars == <<cmd, pc, sigVars, locVars, bedFile, jsonVars>>

----------------------------------------------------------------------------
(* Bounds *)

\* largest number of identifiers in one release's symbol table
MaxGenes == 2
\* largest number of identifiers in the input gene list
MaxInput == 3
\* largest number of transcript rows in the wgEncodeGencodeComp table
MaxRows == 3
\* largest number of rows in a gene BED file given to bedToJson
MaxBedRows == 3

----------------------------------------------------------------------------
(* Python strings *)

TAB == "\t"
NL == "\n"
CR == "\r"
PIPE == "|"
HASH == "#"
None == "None"

\* the characters the model uses, in ascending code point order
Alphabet == <<TAB, NL, CR, HASH, "+", ",", "-", "0", "1", "2", "3", "4", "5", "6",
              "7", "8", "9", "A", "B", "C", "E", "G", "M", "N", "S", "T", "U", "X",
              "c", PIPE>>

Ord(c) == CHOOSE i \in DOMAIN Alphabet : Alphabet[i] = c

Range(s) == {s[i] : i \in DOMAIN s}

Min2(a, b) == IF a < b THEN a ELSE b

\* str < str: the first differing character decides, a proper prefix is less
StrLess(a, b) ==
    \E k \in 1..(Min2(Len(a), Len(b)) + 1) :
        /\ \A i \in 1..(k - 1) : a[i] = b[i]
        /\ \/ k > Len(a) /\ k <= Len(b)
           \/ k <= Len(a) /\ k <= Len(b) /\ Ord(a[k]) < Ord(b[k])

\* sep.join(parts), parts a sequence of strings
RECURSIVE Join(_, _)
Join(parts, sep) ==
    IF parts = <<>> THEN <<>>
    ELSE IF Len(parts) = 1 THEN parts[1]
    ELSE parts[1] \o <<sep>> \o Join(Tail(parts), sep)

\* s.split(sep) for a one-character separator: always at least one piece
RECURSIVE Split(_, _)
Split(s, sep) ==
    IF \A i \in DOMAIN s : s[i] # sep THEN <<s>>
    ELSE LET i == CHOOSE j \in DOMAIN s :
                      s[j] = sep /\ \A k \in 1..(j - 1) : s[k] # sep
         IN <<SubSeq(s, 1, i - 1)>> \o Split(SubSeq(s, i + 1, Len(s)), sep)

\* s.rstrip(c)
RECURSIVE RStrip(_, _)
RStrip(s, c) ==
    IF s # <<>> /\ s[Len(s)] = c THEN RStrip(SubSeq(s, 1, Len(s) - 1), c) ELSE s

\* s.rstrip(chars)
RECURSIVE RStripAny(_, _)
RStripAny(s, chars) ==
    IF s # <<>> /\ s[Len(s)] \in chars
    THEN RStripAny(SubSeq(s, 1, Len(s) - 1), chars) ELSE s

StartsWith(s, c) == s # <<>> /\ s[1] = c

\* s.startswith(prefix)
StartsWithStr(s, prefix) ==
    Len(s) >= Len(prefix) /\ SubSeq(s, 1, Len(prefix)) = prefix

\* s.upper(): of the characters of the model only "c" is a lower case one
Upper(s) == [i \in DOMAIN s |-> IF s[i] = "c" THEN "C" ELSE s[i]]

Digits == <<"0", "1", "2", "3", "4", "5", "6", "7", "8", "9">>

\* c.isdigit()
IsDigit(c) == \E i \in DOMAIN Digits : Digits[i] = c

DigitVal(c) == (CHOOSE i \in DOMAIN Digits : Digits[i] = c) - 1

\* whether int(s) succeeds (s holds decimal digits only)
IsInt(s) == s # <<>> /\ \A i \in DOMAIN s : IsDigit(s[i])

\* int(s)
RECURSIVE ParseInt(_)
ParseInt(s) ==
    IF Len(s) = 1 THEN DigitVal(s[1])
    ELSE 10 * ParseInt(SubSeq(s, 1, Len(s) - 1)) + DigitVal(s[Len(s)])

\* str(n)
RECURSIVE IntToStr(_)
IntToStr(n) ==
    IF n < 0 THEN <<"-">> \o IntToStr(0 - n)
    ELSE IF n < 10 THEN <<Digits[n + 1]>>
    ELSE IntToStr(n \div 10) \o <<Digits[(n % 10) + 1]>>

\* tuple < tuple for tuples of strings
RowLess(a, b) ==
    \E k \in 1..(Min2(Len(a), Len(b)) + 1) :
        /\ \A i \in 1..(k - 1) : a[i] = b[i]
        /\ \/ k > Len(a) /\ k <= Len(b)
           \/ k <= Len(a) /\ k <= Len(b) /\ StrLess(a[k], b[k])

\* the orders in which a set (or a dict's keys) can be iterated
Perms(S) ==
    {p \in [1..Cardinality(S) -> S] : \A i, j \in DOMAIN p : p[i] = p[j] => i = j}

\* list.sort() with < given by Less: insertion from the right, so ascending
\* and stable (equal elements keep their order)
Sorted(seq, Less(_, _)) ==
    LET RECURSIVE InsertStable(_, _)
        InsertStable(x, sorted) ==
            IF sorted = <<>> THEN <<x>>
            ELSE IF Less(x, sorted[Len(sorted)]) THEN
                InsertStable(x, SubSeq(sorted, 1, Len(sorted) - 1))
                    \o <<sorted[Len(sorted)]>>
            ELSE sorted \o <<x>>
        RECURSIVE SortStable(_, _)
        SortStable(done, rest) ==
            IF rest = <<>> THEN done
            ELSE SortStable(InsertStable(rest[1], done), Tail(rest))
    IN SortStable(<<>>, seq)

\* list.sort(reverse=True): descending, equal elements keep their order
SortedReverse(seq, Less(_, _)) ==
    LET Greater(a, b) == Less(b, a) IN Sorted(seq, Greater)

----------------------------------------------------------------------------
(* Universe of the signature pipeline *)

\* release names (the part of gencode-<release> that differs), as strings:
\* "19" < "34" < "7" in Python's string order
Releases == {<<"1", "9">>, <<"3", "4">>, <<"7">>}

\* gene identifiers found in the releases' symbol tables
Ids == {<<"A">>, <<"B">>, <<"C">>}

\* first-column tokens of an input gene list: two of the known identifiers,
\* an unknown one, and the empty token that parseGenes makes of a blank line
InputTokens == {<<"A">>, <<"C">>, <<"X">>, <<>>}

Bounded(U, n) == {S \in SUBSET U : Cardinality(S) <= n}

----------------------------------------------------------------------------
(* keepOnlyUnique *)

\* the inner loop: vals minus every other release's set
RECURSIVE SubtractOthers(_, _, _, _)
SubtractOthers(vals, key1, keys, d) ==
    IF keys = <<>> THEN vals
    ELSE IF keys[1] = key1 THEN SubtractOthers(vals, key1, Tail(keys), d)
    ELSE SubtractOthers(vals \ d[keys[1]], key1, Tail(keys), d)

\* a loop that only looks at the releases after key1
RECURSIVE SubtractLater(_, _, _, _)
SubtractLater(vals, key1, keys, d) ==
    IF keys = <<>> THEN vals
    ELSE IF \E i \in DOMAIN keys : keys[i] = key1 THEN
        SubtractLater(vals, key1, Tail(keys), d)
    ELSE SubtractLater(vals \ d[keys[1]], key1, Tail(keys), d)

\* a loop whose subtraction is never assigned back to vals
KeepAll(vals, key1, keys, d) == vals

UniqOf(vals, key1, keys, d) == SubtractOthers(vals, key1, keys, d)

\* set.intersection(*setList)
RECURSIVE IntersectAll(_, _)
IntersectAll(keys, d) ==
    IF Len(keys) = 1 THEN d[keys[1]]
    ELSE d[keys[1]] \cap IntersectAll(Tail(keys), d)

KeepOnlyUnique ==
    /\ cmd = "index" /\ pc = "keepOnlyUnique"
    /\ uniqVals' = [key1 \in DOMAIN dictSet |->
                        UniqOf(dictSet[key1], key1, order, dictSet)]
    /\ nCommon' = Cardinality(IntersectAll(order, dictSet))
    /\ pc' = "writeUniqs"
    /\ UNCHANGED <<cmd, dictSet, order, uniqFile, signGenes, signOrder,
                   fileGenes, diffs, bestVersion, guessVars, locVars, bedFile,
                   jsonVars>>

----------------------------------------------------------------------------
(* writeUniqs *)

\* "%s\t%s\n" % (key, "|".join(vals)), vals iterated in the order valOrder
UniqLine(key, valOrder) == key \o <<TAB>> \o Join(valOrder, PIPE) \o <<NL>>

WriteUniqs ==
    /\ cmd = "index" /\ pc = "writeUniqs"
    /\ \E valOrder \in [DOMAIN uniqVals -> UNION {Perms(uniqVals[k]) : k \in DOMAIN uniqVals}] :
        /\ \A k \in DOMAIN uniqVals : valOrder[k] \in Perms(uniqVals[k])
        /\ uniqFile' = [i \in DOMAIN order |-> UniqLine(order[i], valOrder[order[i]])]
    /\ pc' = "guessGencode"
    /\ UNCHANGED <<cmd, dictSet, order, uniqVals, nCommon, signGenes, signOrder,
                   fileGenes, diffs, bestVersion, guessVars, locVars, bedFile,
                   jsonVars>>

----------------------------------------------------------------------------
(* guessGencode: parseGenes and guessGeneIdType *)

ENSG1 == <<"E", "N", "S", "G", "1">>
ENSMUS1 == <<"E", "N", "S", "M", "U", "S", "1">>
Ac == <<"A", "c">>

\* first-column tokens of the input gene list of a guess on the installed
\* tables: a human and a mouse gene ID, an upper case and a mixed case
\* symbol, and the empty token of a blank line
GuessTokens == {ENSG1, ENSMUS1, <<"A">>, Ac, <<>>}

\* the organism argument of cbGenes guess <inFile> [<organism>]
Orgs == {"human", "mouse"}

\* the installed genes/<org>.<geneIdType>.unique.tsv.gz files of a guess
\* that does not follow an index build
StaticFiles ==
    [u \in Orgs \X {"syms", "ids"} |->
        IF u = <<"human", "syms">> THEN
            <<UniqLine(<<"1", "9">>, <<<<"A">>, <<"B">>>>), UniqLine(<<"3", "4">>, <<<<"C">>>>)>>
        ELSE IF u = <<"human", "ids">> THEN
            <<UniqLine(<<"1", "9">>, <<ENSG1>>), UniqLine(<<"3", "4">>, <<<<"E", "N", "S", "G", "2">>>>)>>
        ELSE IF u = <<"mouse", "syms">> THEN
            <<UniqLine(<<"7">>, <<Ac>>)>>
        ELSE <<UniqLine(<<"7">>, <<ENSMUS1>>)>>]

\* getStaticFile("genes/%s.%s.unique.tsv.gz" % (org, geneIdType)): after an
\* index build the human symbols file is the one just written
StaticFile(u) ==
    IF cmd = "index" /\ u = <<"human", "syms">> THEN uniqFile ELSE StaticFiles[u]

\* the identifier sets parseGenes may return
InputSets ==
    Bounded(IF cmd = "index" THEN InputTokens ELSE GuessTokens, MaxInput)

\* an input without identifiers is replaced by one blank identifier
FirstGenesOrBlank(genes) == IF genes = {} THEN {<<>>} ELSE genes

\* list(genes)[0]: the elements a set's iteration may start with; none of
\* an empty set, on which the subscript raises IndexError
FirstGenes(genes) == genes

\* the four returns of guessGeneIdType for its gene1
GeneIdTypeOf(gene1) ==
    IF StartsWithStr(gene1, <<"E", "N", "S", "G">>) THEN <<"human", "ids">>
    ELSE IF StartsWithStr(gene1, <<"E", "N", "S", "M", "U", "S">>) THEN <<"mouse", "ids">>
    ELSE IF Upper(gene1) = gene1 THEN <<"human", "syms">>
    ELSE <<"mouse", "syms">>

\* inGenes = set(parseGenes(fname)); guessOrg, geneType = guessGeneIdType(inGenes)
GuessGeneIdType ==
    /\ cmd \in {"index", "guess"} /\ pc = "guessGencode"
    /\ \E genes \in InputSets :
        /\ fileGenes' = genes
        /\ IF FirstGenes(genes) = {}
           THEN /\ pc' = "error"
                /\ UNCHANGED geneIdType
           ELSE /\ \E gene1 \in FirstGenes(genes) : geneIdType' = GeneIdTypeOf(gene1)
                /\ pc' = "parseSignatures"
    /\ UNCHANGED <<cmd, dictSet, order, uniqVals, nCommon, uniqFile, signGenes,
                   signOrder, diffs, bestVersion, org, universe, printed,
                   locVars, bedFile, jsonVars>>

----------------------------------------------------------------------------
(* parseSignatures *)

\* the guessed organism is used whether or not one was given
GuessedUniverse(givenOrg, guessed) == guessed

\* if org is None: org = guessOrg; parseSignatures(org, geneType)
UniverseOf(givenOrg, guessed) ==
    <<IF givenOrg = None THEN guessed[1] ELSE givenOrg, guessed[2]>>

\* version, geneIds = line.rstrip("\n").split('\t'); geneIds.split("|")
LineVersion(line) == Split(RStrip(line, NL), TAB)[1]
LineGeneIds(line) == Split(Split(RStrip(line, NL), TAB)[2], PIPE)

DataLines(lines) == SelectSeq(lines, LAMBDA l : ~StartsWith(l, HASH))

ParseSignatures ==
    /\ cmd \in {"index", "guess"} /\ pc = "parseSignatures"
    /\ universe' = UniverseOf(org, geneIdType)
    /\ LET lines == DataLines(StaticFile(universe'))
           versions == {LineVersion(lines[i]) : i \in DOMAIN lines}
       IN /\ \A i \in DOMAIN lines : Len(Split(RStrip(lines[i], NL), TAB)) = 2
          /\ signGenes' = [v \in versions |->
                LET last == CHOOSE i \in DOMAIN lines :
                        /\ LineVersion(lines[i]) = v
                        /\ \A j \in DOMAIN lines : LineVersion(lines[j]) = v => j <= i
                IN LineGeneIds(lines[last])]
          /\ signOrder' = [i \in DOMAIN lines |-> LineVersion(lines[i])]
    /\ pc' = "guessGencodeVersion"
    /\ UNCHANGED <<cmd, dictSet, order, uniqVals, nCommon, uniqFile, fileGenes,
                   diffs, bestVersion, org, geneIdType, printed, locVars,
                   bedFile, jsonVars>>

----------------------------------------------------------------------------
(* guessGencodeVersion *)

\* len(fileGenes.intersection(uniqGenes))
Score(genes, uniqGenes) == Cardinality(genes \cap Range(uniqGenes))

\* (int, str) < (int, str)
DiffLess(a, b) == a[1] < b[1] \/ (a[1] = b[1] /\ StrLess(a[2], b[2]))

\* comparing the scores only
ScoreLess(a, b) == a[1] < b[1]

SortDiffsByScore(unsorted) == SortedReverse(unsorted, ScoreLess)

SortDiffsAscending(unsorted) == Sorted(unsorted, DiffLess)

\* diffs.sort(reverse=True)
SortDiffs(unsorted) == SortedReverse(unsorted, DiffLess)

\* bestVersion = guessGencodeVersion(inGenes, signGenes) and the print of
\* guessGencode that follows it
GuessGencodeVersion ==
    /\ cmd \in {"index", "guess"} /\ pc = "guessGencodeVersion"
    /\ diffs' = SortDiffs([i \in DOMAIN signOrder |->
                    <<Score(fileGenes, signGenes[signOrder[i]]), signOrder[i]>>])
    /\ bestVersion' = diffs'[1][2]
    /\ printed' = <<universe[1], bestVersion'>>
    /\ pc' = "done"
    /\ UNCHANGED <<cmd, dictSet, order, uniqVals, nCommon, uniqFile, signGenes,
                   signOrder, fileGenes, org, geneIdType, universe, locVars,
                   bedFile, jsonVars>>

----------------------------------------------------------------------------
(* Universe of the canonical transcript selector *)

COMMA == ","
G3 == <<"G", "3">>
G5 == <<"G", "5">>
T1 == <<"T", "1">>
T2 == <<"T", "2">>
T3 == <<"T", "3">>
T4 == <<"T", "4">>
T9 == <<"T", "9">>
G1 == <<"G", "1">>
G2 == <<"G", "2">>
G4 == <<"G", "4">>
G6 == <<"G", "6">>
G7 == <<"G", "7">>
G8 == <<"G", "8">>
G9 == <<"G", "9">>
G10 == <<"G", "1", "0">>
Chr1 == <<"c", "1">>
Chr2 == <<"c", "2">>
SymA == <<"A">>
SymB == <<"B">>
SymC == <<"C">>

\* rows of the wgEncodeGencodeAttrs table: geneId, geneName, geneType,
\* geneStatus, transcriptId. The last row repeats the key T1.
AttrsRows == <<
    <<G5, SymA, <<"c">>, <<"c">>, T1>>,
    <<G5, SymA, <<"c">>, <<"c">>, T2>>,
    <<G3, SymB, <<"c">>, <<"c">>, T3>>,
    <<G3, SymB, <<"c">>, <<"c">>, T4>>,
    <<G3, SymB, <<"c">>, <<"c">>, T1>>,
    <<G1, SymA, <<"c">>, <<"c">>, <<"T", "1", "1">>>>,
    <<G2, SymA, <<"c">>, <<"c">>, <<"T", "1", "2">>>>,
    <<G4, SymA, <<"c">>, <<"c">>, <<"T", "1", "4">>>>,
    <<G6, SymA, <<"c">>, <<"c">>, <<"T", "1", "6">>>>,
    <<G7, SymA, <<"c">>, <<"c">>, <<"T", "1", "7">>>>,
    <<G8, SymA, <<"c">>, <<"c">>, <<"T", "1", "8">>>>,
    <<G9, SymB, <<"c">>, <<"c">>, <<"T", "1", "9">>>>,
    <<G10, SymB, <<"c">>, <<"c">>, <<"T", "2", "0">>>> >>

\* iterGencodePairs(release, doTransGene=True) into dict(): transcript ID ->
\* gene ID, the first row of a key is the one yielded
TransToGene ==
    [t \in {AttrsRows[i][5] : i \in DOMAIN AttrsRows} |->
        LET first == CHOOSE i \in DOMAIN AttrsRows :
                /\ AttrsRows[i][5] = t
                /\ \A j \in DOMAIN AttrsRows : AttrsRows[j][5] = t => i <= j
        IN AttrsRows[first][1]]

\* a line of the wgEncodeGencodeComp table (genePred extended, 16 fields)
CompLine(bin, name, chrom, strand, txStart, txEnd, nExons, exStarts, exEnds, score, name2) ==
    Join(<<bin, name, chrom, strand, txStart, txEnd, txStart, txEnd, nExons,
           exStarts, exEnds, score, name2, <<"c">>, <<"c">>, <<"0", ",">>>>,
         TAB) \o <<NL>>

\* a line of the table that ends after its third field
ShortLine(bin, name, chrom) == Join(<<bin, name, chrom>>, TAB) \o <<NL>>

\* T1 and T2 belong to gene G5, T3 and T4 to gene G3, T9 to no gene of the
\* attributes table. As strings the bin "10" is less than the bin "9". The
\* last line is a short one of transcript T1.
CompUniverse == {
    CompLine(<<"9">>, T1, Chr1, <<"+">>, <<"1", "0">>, <<"3", "0">>, <<"2">>,
             <<"1", "0", ",", "2", "0", ",">>, <<"1", "5", ",", "3", "0", ",">>,
             <<"0">>, SymA),
    CompLine(<<"1", "0">>, T2, Chr1, <<"+">>, <<"5">>, <<"3", "0">>, <<"1">>,
             <<"5", ",">>, <<"3", "0", ",">>, <<"0">>, SymA),
    CompLine(<<"9">>, T3, Chr2, <<"-">>, <<"7">>, <<"9">>, <<"1">>,
             <<"7", ",">>, <<"9", ",">>, <<"1">>, SymB),
    CompLine(<<"9">>, T4, Chr2, <<"-">>, <<"7">>, <<"1", "9">>, <<"1">>,
             <<"7", ",">>, <<"1", "9", ",">>, <<"0">>, SymB),
    CompLine(<<"9">>, T9, Chr2, <<"+">>, <<"7">>, <<"9">>, <<"1">>,
             <<"7", ",">>, <<"9", ",">>, <<"0">>, SymC),
    ShortLine(<<"9">>, T1, Chr1) }

\* the sequences of at most n different elements of U
InjSeqs(U, n) ==
    UNION {{q \in [1..k -> U] : \A i, j \in 1..k : q[i] = q[j] => i = j} : k \in 0..n}

----------------------------------------------------------------------------
(* iterGencodeBed, consumed by writeRows *)

\* row = tuple(line.split('\t'))
CompRowOf(line) == Split(line, TAB)

\* ''.join(c for c in geneId if c.isdigit())
DigitsOf(geneId) == SelectSeq(geneId, IsDigit)

\* whether the loop body of lines 169-173 raises on this row: IndexError on
\* row[1], KeyError on transToGene[transId], ValueError on int('')
RowFails(row) ==
    \/ Len(row) < 2
    \/ row[2] \notin DOMAIN TransToGene
    \/ ~IsInt(DigitsOf(TransToGene[row[2]]))

\* (score, row) of a row that does not fail
ScoredRow(row) == <<ParseInt(DigitsOf(TransToGene[row[2]])), row>>

\* (int, tuple) < (int, tuple)
TransLess(a, b) == a[1] < b[1] \/ (a[1] = b[1] /\ RowLess(a[2], b[2]))

\* the list is not sorted before its first element is taken
FirstTrans(transList) == transList[1][2]

\* transList.sort(); canonTransRow = transList[0][1]
CanonTrans(transList) == Sorted(transList, TransLess)[1][2]

\* rows of unknown transcripts are left out instead of looked up
SkipUnknown(rows) == SelectSeq(rows, LAMBDA r : Len(r) < 2 \/ r[2] \in DOMAIN TransToGene)

\* the rows whose transcript ID the first loop looks up in transToGene:
\* every row of the input
LookedUp(rows) == rows

\* the first loop: every row is looked up and put in its gene's bucket, in
\* input order, before any row is yielded
LoadTranscripts ==
    /\ cmd = "locs" /\ pc = "iterGencodeBed"
    /\ LET rows == LookedUp([i \in DOMAIN compLines |-> CompRowOf(compLines[i])])
       IN IF \E i \in DOMAIN rows : RowFails(rows[i])
          THEN /\ pc' = "error"
               /\ UNCHANGED geneToTransList
          ELSE /\ geneToTransList' =
                    [g \in {TransToGene[rows[i][2]] : i \in DOMAIN rows} |->
                        LET mine == SelectSeq(rows,
                                LAMBDA r : TransToGene[r[2]] = g)
                        IN [i \in DOMAIN mine |-> ScoredRow(mine[i])]]
               /\ pc' = IF rows = <<>> THEN "bedToJson" ELSE "pickTranscript"
    /\ UNCHANGED <<cmd, sigVars, compLines, canonRows, bedRows, bedFile, jsonVars>>

\* zip(exonStarts.split(","), exonEnds.split(",")) without the pairs whose
\* exonStart is empty
ExonPairs(exonStarts, exonEnds) ==
    LET starts == Split(exonStarts, COMMA)
        ends == Split(exonEnds, COMMA)
        pairs == [i \in 1..Min2(Len(starts), Len(ends)) |-> <<starts[i], ends[i]>>]
    IN SelectSeq(pairs, LAMBDA pr : pr[1] # <<>>)

\* blockLens.append(str(int(exonEnd)-int(exonStart)))
BlockLens(pairs) ==
    [i \in DOMAIN pairs |-> IntToStr(ParseInt(pairs[i][2]) - ParseInt(pairs[i][1]))]

\* blockStarts.append(exonStart)
BlockStarts(pairs) == [i \in DOMAIN pairs |-> pairs[i][1]]

\* the fifth field is the gene's rank, formatted
RankScore(geneId, row) == IntToStr(ParseInt(DigitsOf(geneId)))

\* the name score is rebound by the unpacking of canonTransRow (line 179):
\* the row's own score column
RowScore(geneId, row) == row[12]

\* newRow of line 188
NewRow(geneId, row) ==
    LET pairs == ExonPairs(row[10], row[11])
    IN <<row[3], row[5], row[6], geneId, RowScore(geneId, row), row[4], row[7],
         row[8], row[9], Join(BlockLens(pairs), COMMA),
         Join(BlockStarts(pairs), COMMA), row[13]>>

\* whether lines 179-187 raise on the picked row: ValueError on the unpacking
\* of a row that has not 16 fields, or on int() of an exon coordinate
PickFails(row) ==
    \/ Len(row) # 16
    \/ LET pairs == ExonPairs(row[10], row[11])
       IN \E i \in DOMAIN pairs : ~IsInt(pairs[i][1]) \/ ~IsInt(pairs[i][2])

\* ofh.write("\t".join(row)); ofh.write("\n")
BedLine(row) == Join(row, TAB) \o <<NL>>

\* one iteration of the second loop and of writeRows' loop: the next gene of
\* the dict (any not yet yielded) gets its canonical transcript, whose row is
\* yielded and written
PickTranscript ==
    /\ cmd = "locs" /\ pc = "pickTranscript"
    /\ \E geneId \in DOMAIN geneToTransList \ DOMAIN canonRows :
        LET canonTransRow == CanonTrans(geneToTransList[geneId])
        IN IF PickFails(canonTransRow)
           THEN /\ pc' = "error"
                /\ UNCHANGED <<canonRows, bedRows, bedFile>>
           ELSE /\ canonRows' = [g \in DOMAIN canonRows \cup {geneId} |->
                        IF g = geneId THEN canonTransRow ELSE canonRows[g]]
                /\ bedRows' = Append(bedRows, NewRow(geneId, canonTransRow))
                /\ bedFile' = Append(bedFile, BedLine(NewRow(geneId, canonTransRow)))
                /\ pc' = IF DOMAIN canonRows' = DOMAIN geneToTransList
                         THEN "bedToJson" ELSE "pickTranscript"
    /\ UNCHANGED <<cmd, sigVars, compLines, geneToTransList, jsonVars>>

----------------------------------------------------------------------------
(* bedToJson *)

\* readGeneSymbols(geneIdType): gene ID -> symbol, the table buildSymbolTable
\* makes of the attributes table (the first row of a gene ID is the one kept)
GeneToSym ==
    [g \in {AttrsRows[i][1] : i \in DOMAIN AttrsRows} |->
        LET first == CHOOSE i \in DOMAIN AttrsRows :
                /\ AttrsRows[i][1] = g
                /\ \A j \in DOMAIN AttrsRows : AttrsRows[j][1] = g => i <= j
        IN AttrsRows[first][2]]

\* a line of a gene BED file as writeRows writes it
GeneBedLine(chrom, start, end, geneId, strand) ==
    BedLine(<<chrom, start, end, geneId, <<"0">>, strand, start, end, <<"1">>,
              <<"1">>, start, GeneToSym[geneId]>>)

\* genes G1, G2, G4, G7, G8 carry symbol A on chromosome c1 (G1, G2 and G4
\* with length 10, G8 with length 100, G7 with length 250), G6 carries symbol
\* A on chromosome c2, G9 and G10 carry symbol B on chromosome c1, G10 with
\* the start 100 of G7 and G8
BedUniverse == {
    GeneBedLine(Chr1, <<"5">>, <<"1", "5">>, G1, <<"+">>),
    GeneBedLine(Chr1, <<"5">>, <<"1", "5">>, G2, <<"+">>),
    GeneBedLine(Chr1, <<"1", "0">>, <<"2", "0">>, G4, <<"-">>),
    GeneBedLine(Chr2, <<"7">>, <<"9">>, G6, <<"+">>),
    GeneBedLine(Chr1, <<"1", "0", "0">>, <<"3", "5", "0">>, G7, <<"-">>),
    GeneBedLine(Chr1, <<"1", "0", "0">>, <<"2", "0", "0">>, G8, <<"+">>),
    GeneBedLine(Chr1, <<"8">>, <<"1", "2">>, G9, <<"+">>),
    GeneBedLine(Chr1, <<"1", "0", "0">>, <<"1", "5", "0">>, G10, <<"+">>) }

\* iterBedRows: row = line.rstrip("\n\r").split("\t")
BedRowOf(line) == Split(RStripAny(line, {NL, CR}), TAB)

\* whether lines 335-338 raise on this row: ValueError on the unpacking of
\* row[:6], KeyError on geneToSym[geneId], ValueError on int()
BedRowFails(row) ==
    \/ Len(row) < 6
    \/ row[4] \notin DOMAIN GeneToSym
    \/ ~IsInt(row[2]) \/ ~IsInt(row[3])

\* (transLen, start, end, strand, geneId)
Locus(row) ==
    <<ParseInt(row[3]) - ParseInt(row[2]), ParseInt(row[2]), ParseInt(row[3]),
      row[6], row[4]>>

\* (int, int, int, str, str) < (int, int, int, str, str)
LocusLess(a, b) ==
    \/ a[1] < b[1]
    \/ a[1] = b[1] /\ a[2] < b[2]
    \/ a[1] = b[1] /\ a[2] = b[2] /\ a[3] < b[3]
    \/ a[1] = b[1] /\ a[2] = b[2] /\ a[3] = b[3] /\ StrLess(a[4], b[4])
    \/ a[1] = b[1] /\ a[2] = b[2] /\ a[3] = b[3] /\ a[4] = b[4] /\ StrLess(a[5], b[5])

\* longest first, then ascending in the other fields
LongestThenAscending(a, b) ==
    \/ a[1] > b[1]
    \/ a[1] = b[1] /\ LocusLess(<<0, a[2], a[3], a[4], a[5]>>, <<0, b[2], b[3], b[4], b[5]>>)

SortLociAscendingTies(transList) == Sorted(transList, LongestThenAscending)

\* transList.sort(reverse=True)
SortLoci(transList) == SortedReverse(transList, LocusLess)

\* (int, int, str, str) < (int, int, str, str)
LocLess(a, b) ==
    \/ a[1] < b[1]
    \/ a[1] = b[1] /\ a[2] < b[2]
    \/ a[1] = b[1] /\ a[2] = b[2] /\ StrLess(a[3], b[3])
    \/ a[1] = b[1] /\ a[2] = b[2] /\ a[3] = b[3] /\ StrLess(a[4], b[4])

\* the different elements of a sequence, in the order of their first
\* occurrence: the key order of a dict filled in that order
RECURSIVE KeyOrder(_)
KeyOrder(seq) ==
    IF seq = <<>> THEN <<>>
    ELSE LET front == KeyOrder(SubSeq(seq, 1, Len(seq) - 1))
             last == seq[Len(seq)]
         IN IF last \in Range(front) THEN front ELSE Append(front, last)

\* the first loop with the in-place sort of the second: symbol -> chromosome
\* -> the loci of that symbol on that chromosome
BySymOf(rows) ==
    [sym \in {GeneToSym[rows[i][4]] : i \in DOMAIN rows} |->
        LET mine == SelectSeq(rows, LAMBDA r : GeneToSym[r[4]] = sym)
        IN [chrom \in {mine[i][1] : i \in DOMAIN mine} |->
                LET here == SelectSeq(mine, LAMBDA r : r[1] = chrom)
                IN SortLoci([i \in DOMAIN here |-> Locus(here[i])])]]

\* only the longest locus of a symbol over all its chromosomes is appended
LongestOnlyLocs(by, symOrder, chrom) ==
    LET syms == SelectSeq(symOrder, LAMBDA sym :
                    /\ chrom \in DOMAIN by[sym]
                    /\ \A c2 \in DOMAIN by[sym] :
                        c2 = chrom \/ LocusLess(by[sym][c2][1], by[sym][chrom][1]))
    IN [i \in DOMAIN syms |->
            LET first == by[syms[i]][chrom][1]
            IN <<first[2], first[3], first[4], syms[i]>>]

\* symLocs[chrom] of the second loop: the first locus of every symbol that
\* has loci on chrom
SymLocsOf(by, symOrder, chrom) ==
    LET syms == SelectSeq(symOrder, LAMBDA sym : chrom \in DOMAIN by[sym])
    IN [i \in DOMAIN syms |->
            LET first == by[syms[i]][chrom][1]
            IN <<first[2], first[3], first[4], syms[i]>>]

\* comparing the starts only
StartLess(a, b) == a[1] < b[1]

SortLocsByStart(geneList) == Sorted(geneList, StartLess)

\* geneList.sort()
SortLocs(geneList) == Sorted(geneList, LocLess)

BedToJson ==
    /\ pc = "bedToJson"
    /\ LET rows == [i \in DOMAIN bedFile |-> BedRowOf(bedFile[i])]
       IN IF \E i \in DOMAIN rows : BedRowFails(rows[i])
          THEN /\ pc' = "error"
               /\ UNCHANGED jsonVars
          ELSE LET by == BySymOf(rows)
                   symOrder == KeyOrder([i \in DOMAIN rows |-> GeneToSym[rows[i][4]]])
               IN /\ bySym' = by
                  /\ sortedLocs' = [chrom \in {rows[i][1] : i \in DOMAIN rows} |->
                                        SortLocs(SymLocsOf(by, symOrder, chrom))]
                  /\ pc' = "done"
    /\ UNCHANGED <<cmd, sigVars, locVars, bedFile>>

----------------------------------------------------------------------------
(* Specification *)

InitIndex ==
    /\ cmd = "index" /\ pc = "keepOnlyUnique"
    /\ \E rels \in (SUBSET Releases) \ {{}} :
        /\ dictSet \in [rels -> Bounded(Ids, MaxGenes)]
        /\ order \in Perms(rels)
    /\ uniqVals = <<>> /\ nCommon = 0 /\ uniqFile = <<>>
    /\ signGenes = <<>> /\ signOrder = <<>>
    /\ fileGenes = {} /\ diffs = <<>> /\ bestVersion = None
    /\ org = None /\ geneIdType = None /\ universe = None /\ printed = None
    /\ compLines = <<>> /\ geneToTransList = <<>> /\ canonRows = <<>>
    /\ bedRows = <<>> /\ bedFile = <<>>
    /\ bySym = <<>> /\ sortedLocs = <<>>

\* cbGenes locs <db> <geneType>: buildLocusBed
InitLocs ==
    /\ cmd = "locs" /\ pc = "iterGencodeBed"
    /\ dictSet = <<>> /\ order = <<>>
    /\ uniqVals = <<>> /\ nCommon = 0 /\ uniqFile = <<>>
    /\ signGenes = <<>> /\ signOrder = <<>>
    /\ fileGenes = {} /\ diffs = <<>> /\ bestVersion = None
    /\ org = None /\ geneIdType = None /\ universe = None /\ printed = None
    /\ compLines \in InjSeqs(CompUniverse, MaxRows)
    /\ geneToTransList = <<>> /\ canonRows = <<>>
    /\ bedRows = <<>> /\ bedFile = <<>>
    /\ bySym = <<>> /\ sortedLocs = <<>>

\* cbGenes json <db> <geneType> <outFname>: bedToJson on an installed BED file
InitJson ==
    /\ cmd = "json" /\ pc = "bedToJson"
    /\ dictSet = <<>> /\ order = <<>>
    /\ uniqVals = <<>> /\ nCommon = 0 /\ uniqFile = <<>>
    /\ signGenes = <<>> /\ signOrder = <<>>
    /\ fileGenes = {} /\ diffs = <<>> /\ bestVersion = None
    /\ org = None /\ geneIdType = None /\ universe = None /\ printed = None
    /\ compLines = <<>> /\ geneToTransList = <<>> /\ canonRows = <<>>
    /\ bedRows = <<>>
    /\ bedFile \in InjSeqs(BedUniverse, MaxBedRows)
    /\ bySym = <<>> /\ sortedLocs = <<>>

\* cbGenes guess <inFile> [<organism>] on the installed signature files
InitGuess ==
    /\ cmd = "guess" /\ pc = "guessGencode"
    /\ dictSet = <<>> /\ order = <<>>
    /\ uniqVals = <<>> /\ nCommon = 0 /\ uniqFile = <<>>
    /\ signGenes = <<>> /\ signOrder = <<>>
    /\ fileGenes = {} /\ diffs = <<>> /\ bestVersion = None
    /\ org \in Orgs \cup {None}
    /\ geneIdType = None /\ universe = None /\ printed = None
    /\ compLines = <<>> /\ geneToTransList = <<>> /\ canonRows = <<>>
    /\ bedRows = <<>> /\ bedFile = <<>>
    /\ bySym = <<>> /\ sortedLocs = <<>>

Init == InitIndex \/ InitGuess \/ InitLocs \/ InitJson

Next ==
    \/ KeepOnlyUnique
    \/ WriteUniqs
    \/ GuessGeneIdType
    \/ ParseSignatures
    \/ GuessGencodeVersion
    \/ LoadTranscripts
    \/ PickTranscript
    \/ BedToJson

Spec == Init /\ [][Next]_vars

----------------------------------------------------------------------------
(* Signature table builder and release guesser: properties *)

Built == cmd = "index" /\ pc # "keepOnlyUnique"
Parsed == cmd = "index" /\ pc \in {"guessGencodeVersion", "done"}
Guessed == cmd = "index" /\ pc = "done"

OtherReleases(R) == DOMAIN dictSet \ {R}

\* the score guessGencodeVersion recorded for release R
ScoreIn(R) == (CHOOSE i \in DOMAIN diffs : diffs[i][2] = R) \* unique: keys differ

DiffScore(R) == diffs[ScoreIn(R)][1]

\* C1: keepOnlyUnique returns a mapping with exactly the input's release
\* keys, and the value of each release R is S_R minus the union of the sets
\* of all other releases (an empty unique set is kept, not dropped).
C1_KeepOnlyUnique ==
    Built =>
        /\ DOMAIN uniqVals = DOMAIN dictSet
        /\ \A R \in DOMAIN dictSet :
            uniqVals[R] = dictSet[R] \ UNION {dictSet[R2] : R2 \in OtherReleases(R)}

\* a release fully subsumed by the others is still a key, with an empty set
C1_Witness ==
    /\ Built
    /\ \E R \in DOMAIN dictSet :
        /\ dictSet[R] # {} /\ uniqVals[R] = {}
        /\ \E R2 \in OtherReleases(R) : uniqVals[R2] # {}

\* C2: with at least two releases, the unique sets of two different
\* releases share no identifier.
C2_PairwiseDisjoint ==
    (Built /\ Cardinality(DOMAIN dictSet) >= 2) =>
        \A R1, R2 \in DOMAIN uniqVals :
            R1 # R2 => uniqVals[R1] \cap uniqVals[R2] = {}

\* two releases that share an identifier and each keep one of their own
C2_Witness ==
    /\ Built
    /\ \E R1, R2 \in DOMAIN dictSet :
        /\ R1 # R2
        /\ dictSet[R1] \cap dictSet[R2] # {}
        /\ uniqVals[R1] # {} /\ uniqVals[R2] # {}

\* C3: writing the unique sets with writeUniqs and reading the file back
\* with parseSignatures yields the same releases and, for each release, the
\* same set of identifiers, also when a release's unique set is empty.
C3_RoundTrip ==
    Parsed =>
        /\ DOMAIN signGenes = DOMAIN uniqVals
        /\ \A R \in DOMAIN uniqVals : Range(signGenes[R]) = uniqVals[R]

\* C4: whenever the input equals exactly the unique set of a release R,
\* and so has no unique identifier of another release, guessGencodeVersion
\* returns R. The unique set of R is taken both as keepOnlyUnique made it
\* and as the list parseSignatures hands to guessGencodeVersion.
C4_ExactSetReturnsRelease ==
    Guessed =>
        \A R \in DOMAIN uniqVals :
            /\ fileGenes = uniqVals[R] => bestVersion = R
            /\ ( /\ fileGenes = Range(signGenes[R])
                 /\ \A R2 \in DOMAIN signGenes \ {R} :
                        fileGenes \cap Range(signGenes[R2]) = {} )
               => bestVersion = R

\* the input is the non-empty unique set of a release that is neither the
\* first one iterated nor the one with the greatest name
C4_Witness ==
    /\ Guessed
    /\ \E R \in DOMAIN uniqVals :
        /\ uniqVals[R] # {} /\ fileGenes = uniqVals[R]
        /\ bestVersion = R
        /\ signOrder[1] # R
        /\ \E R2 \in DOMAIN uniqVals : StrLess(R, R2)

\* C5: a release whose unique set is empty gets score 0 and is returned as
\* the best release only if every release scores 0.
C5_EmptySignatureScoresZero ==
    Guessed =>
        \A R \in DOMAIN uniqVals :
            uniqVals[R] = {} =>
                /\ DiffScore(R) = 0
                /\ bestVersion = R => \A i \in DOMAIN diffs : diffs[i][1] = 0

\* C6: the returned release has the largest intersection size, and among
\* the releases tied for it the greatest release name wins, whatever the
\* order in which the releases are stored in the signature mapping.
C6_BestByScoreThenName ==
    Guessed =>
        /\ bestVersion \in DOMAIN signGenes
        /\ \A R \in DOMAIN signGenes :
            LET sR == Score(fileGenes, signGenes[R])
                sBest == Score(fileGenes, signGenes[bestVersion])
            IN \/ sR < sBest
               \/ sR = sBest /\ (R = bestVersion \/ StrLess(R, bestVersion))

\* unique sets {A,B}, {C}, {} for the releases "19" < "34" < "7" and the
\* input {A,C,X}: scores 1, 1, 0, the tie goes to "34", which is not the
\* release iterated first
C6_Witness ==
    /\ Guessed
    /\ DOMAIN uniqVals = Releases
    /\ uniqVals[<<"1", "9">>] = {<<"A">>, <<"B">>}
    /\ uniqVals[<<"3", "4">>] = {<<"C">>}
    /\ uniqVals[<<"7">>] = {}
    /\ fileGenes = {<<"A">>, <<"C">>, <<"X">>}
    /\ DiffScore(<<"1", "9">>) = 1 /\ DiffScore(<<"3", "4">>) = 1
    /\ DiffScore(<<"7">>) = 0
    /\ signOrder[1] = <<"1", "9">>
    /\ bestVersion = <<"3", "4">>

----------------------------------------------------------------------------
(* Canonical transcript selector: properties *)

Yielding == cmd = "locs" /\ pc \in {"pickTranscript", "bedToJson", "error"}
AllYielded == cmd = "locs" /\ pc = "bedToJson"

InputRows == {CompRowOf(compLines[i]) : i \in DOMAIN compLines}

\* the input rows of gene g
TranscriptsOf(g) ==
    {r \in InputRows : r[2] \in DOMAIN TransToGene /\ TransToGene[r[2]] = g}

InputGenes ==
    {TransToGene[r[2]] : r \in {x \in InputRows : x[2] \in DOMAIN TransToGene}}

\* the numeric rank of a gene: the sort key of its transcripts
RankOf(g) == ParseInt(DigitsOf(g))

\* the transcript of g that is first in ascending order of (rank, full row)
IsFirstOf(r, g) ==
    /\ r \in TranscriptsOf(g)
    /\ \A r2 \in TranscriptsOf(g) :
        r2 = r \/ TransLess(<<RankOf(g), r>>, <<RankOf(g), r2>>)

YieldedFor(g) == {i \in DOMAIN bedRows : bedRows[i][4] = g}

\* chromosome, transcript start and end, strand, CDS start and end, exon
\* count and symbol of an output row are those of row r
BuiltFrom(out, r) ==
    /\ out[1] = r[3] /\ out[2] = r[5] /\ out[3] = r[6] /\ out[6] = r[4]
    /\ out[7] = r[7] /\ out[8] = r[8] /\ out[9] = r[9] /\ out[12] = r[13]

\* C7: every gene with at least one transcript row gets exactly one output
\* row, built from the transcript that is first in ascending order of
\* (rank, full row), whatever the order of the input rows.
C7_OneCanonicalRowPerGene ==
    /\ Yielding =>
        \A g \in DOMAIN canonRows :
            /\ Cardinality(YieldedFor(g)) = 1
            /\ IsFirstOf(canonRows[g], g)
            /\ \A i \in YieldedFor(g) : BuiltFrom(bedRows[i], canonRows[g])
    /\ AllYielded => DOMAIN canonRows = InputGenes

\* gene G5 has the transcripts T1 (bin "9") and T2 (bin "10"), T1 comes
\* first in the input and T2 is the one selected
C7_Witness ==
    /\ AllYielded
    /\ Len(compLines) >= 2
    /\ CompRowOf(compLines[1])[2] = T1
    /\ \E r \in TranscriptsOf(G5) : r[2] = T2
    /\ canonRows[G5][2] = T2
    /\ Cardinality(YieldedFor(G5)) = 1

\* C8 as stated: the fourth field of a yielded row is the gene ID of its
\* bucket and the fifth field is the numeric rank of that gene, the sort key
\* of its transcripts.
C8_FifthFieldIsGeneRank ==
    Yielding =>
        \A i \in DOMAIN bedRows :
            /\ bedRows[i][4] \in DOMAIN geneToTransList
            /\ IsInt(bedRows[i][5])
            /\ ParseInt(bedRows[i][5]) = geneToTransList[bedRows[i][4]][1][1]

\* C8 as amended: the fourth field of a yielded row is the gene ID of its
\* bucket and the fifth field is the score column (twelfth field) of the
\* transcript row selected for that gene.
C8_FifthFieldIsRowScore ==
    Yielding =>
        \A i \in DOMAIN bedRows :
            LET g == bedRows[i][4]
            IN /\ g \in DOMAIN geneToTransList
               /\ g \in DOMAIN canonRows
               /\ TransToGene[canonRows[g][2]] = g
               /\ BuiltFrom(bedRows[i], canonRows[g])
               /\ bedRows[i][5] = canonRows[g][12]

\* a row of gene G5, whose rank is 5, is yielded with the score column "0",
\* and a row of gene G3 with the score column "1"
C8_Witness ==
    /\ AllYielded
    /\ \E i \in DOMAIN bedRows :
        /\ bedRows[i][4] = G5 /\ bedRows[i][5] = <<"0">>
        /\ geneToTransList[G5][1][1] = 5
    /\ \E i \in DOMAIN bedRows :
        bedRows[i][4] = G3 /\ bedRows[i][5] = <<"1">>

----------------------------------------------------------------------------
(* Spatial index builder: properties *)

IndexBuilt == cmd \in {"locs", "json"} /\ pc = "done"

IndexRows == {BedRowOf(bedFile[i]) : i \in DOMAIN bedFile}

IndexSyms == {GeneToSym[r[4]] : r \in IndexRows}

IndexChroms == {r[1] : r \in IndexRows}

\* the loci of the canonical rows of symbol sym on chromosome chrom
LociOf(sym, chrom) ==
    {Locus(r) : r \in {x \in IndexRows : GeneToSym[x[4]] = sym /\ x[1] = chrom}}

\* the positions of symbol sym in the tuple list of chromosome chrom
EntriesOf(sym, chrom) ==
    {i \in DOMAIN sortedLocs[chrom] : sortedLocs[chrom][i][4] = sym}

\* (start, end, strand, geneId) of a comes before that of b
RestLess(a, b) ==
    LocusLess(<<0, a[2], a[3], a[4], a[5]>>, <<0, b[2], b[3], b[4], b[5]>>)

\* C9 as stated: of several rows of one symbol on one chromosome exactly one
\* is kept, the one of greatest length and, among those of equal greatest
\* length, the first in ascending order of (start, end, strand, gene ID).
C9_LongestThenFirst ==
    IndexBuilt =>
        \A sym \in IndexSyms : \A chrom \in IndexChroms :
            Cardinality(LociOf(sym, chrom)) >= 2 =>
                /\ Cardinality(EntriesOf(sym, chrom)) = 1
                /\ \E L \in LociOf(sym, chrom) :
                    /\ \A L2 \in LociOf(sym, chrom) :
                        \/ L2[1] < L[1]
                        \/ L2[1] = L[1] /\ (L2 = L \/ RestLess(L, L2))
                    /\ \A i \in EntriesOf(sym, chrom) :
                        sortedLocs[chrom][i] = <<L[2], L[3], L[4], sym>>

\* C9 as amended: of several rows of one symbol on one chromosome exactly
\* one is kept, the one of greatest length and, among those of equal
\* greatest length, the last in ascending order of (start, end, strand,
\* gene ID).
C9_LongestThenLast ==
    IndexBuilt =>
        \A sym \in IndexSyms : \A chrom \in IndexChroms :
            Cardinality(LociOf(sym, chrom)) >= 2 =>
                /\ Cardinality(EntriesOf(sym, chrom)) = 1
                /\ \E L \in LociOf(sym, chrom) :
                    /\ \A L2 \in LociOf(sym, chrom) :
                        \/ L2[1] < L[1]
                        \/ L2[1] = L[1] /\ (L2 = L \/ RestLess(L2, L))
                    /\ \A i \in EntriesOf(sym, chrom) :
                        sortedLocs[chrom][i] = <<L[2], L[3], L[4], sym>>

\* symbol A has on chromosome c1 the loci 5-15 (+) of G1 and 10-20 (-) of G4,
\* both of length 10 and none longer: the locus 10-20 is the one kept
C9_Witness ==
    /\ IndexBuilt
    /\ LociOf(SymA, Chr1) = {<<10, 5, 15, <<"+">>, G1>>, <<10, 10, 20, <<"-">>, G4>>}
    /\ \E i \in DOMAIN sortedLocs[Chr1] :
        sortedLocs[Chr1][i] = <<10, 20, <<"-">>, SymA>>
    /\ Cardinality(EntriesOf(SymA, Chr1)) = 1

\* C10 as stated: the index has one entry per symbol over all chromosomes,
\* so no symbol is in the tuple lists of two different chromosomes.
C10_OneEntryPerSymbol ==
    IndexBuilt =>
        \A sym \in IndexSyms : \A c1, c2 \in DOMAIN sortedLocs :
            (EntriesOf(sym, c1) # {} /\ EntriesOf(sym, c2) # {}) => c1 = c2

\* C10 as amended: the index has one entry per symbol and chromosome: a
\* symbol has exactly one tuple in the list of every chromosome on which it
\* has a canonical row, and none in the other lists.
C10_OneEntryPerSymbolAndChrom ==
    IndexBuilt =>
        /\ DOMAIN sortedLocs = IndexChroms
        /\ \A sym \in IndexSyms : \A chrom \in IndexChroms :
            Cardinality(EntriesOf(sym, chrom)) =
                IF LociOf(sym, chrom) = {} THEN 0 ELSE 1

\* symbol A has rows on chromosomes c1 and c2 and is in both tuple lists,
\* its locus on c2 being shorter than the one on c1
C10_Witness ==
    /\ IndexBuilt
    /\ DOMAIN sortedLocs = {Chr1, Chr2}
    /\ EntriesOf(SymA, Chr1) # {} /\ EntriesOf(SymA, Chr2) # {}
    /\ \E L1 \in LociOf(SymA, Chr1) : \A L2 \in LociOf(SymA, Chr2) : L2[1] < L1[1]

\* (end, strand, symbol) of a is at most that of b
RestAtMost(a, b) ==
    \/ a[2] < b[2]
    \/ a[2] = b[2] /\ StrLess(a[3], b[3])
    \/ a[2] = b[2] /\ a[3] = b[3] /\ (a[4] = b[4] \/ StrLess(a[4], b[4]))

\* C11: the tuple list of every chromosome in the serialized index is in
\* non-decreasing order of the integer start, and tuples of equal start are
\* in the order of their remaining fields (end, strand, symbol).
C11_ListsSortedByStart ==
    IndexBuilt =>
        \A chrom \in DOMAIN sortedLocs :
            \A i, j \in DOMAIN sortedLocs[chrom] :
                i < j =>
                    LET a == sortedLocs[chrom][i]
                        b == sortedLocs[chrom][j]
                    IN /\ a[1] <= b[1]
                       /\ a[1] = b[1] => RestAtMost(a, b)

\* the row of G8 (symbol A, 100-200) is read before the row of G10 (symbol
\* B, 100-150) and before the row of G9 (symbol B, 8-12, shorter than the
\* one of G10): the tuple of B comes first in the list, by its end
C11_Witness ==
    /\ IndexBuilt
    /\ Len(bedFile) = 3
    /\ BedRowOf(bedFile[1])[4] = G8
    /\ sortedLocs[Chr1] = << <<100, 150, <<"+">>, SymB>>, <<100, 200, <<"+">>, SymA>> >>

\* whether a transcript row of the input names a transcript that is not in
\* the transcript-to-gene table
HasUnknownTranscript ==
    \E i \in DOMAIN compLines :
        LET row == CompRowOf(compLines[i])
        IN Len(row) >= 2 /\ row[2] \notin DOMAIN TransToGene

\* C12: when a transcript row of the input has an identifier that is not in
\* the lookup table, the build of the canonical table ends in the error
\* state without iterGencodeBed having yielded a row: no row is selected and
\* nothing is written to the canonical table, and the index is not built.
C12_UnknownTranscriptYieldsNothing ==
    (cmd = "locs" /\ HasUnknownTranscript) =>
        /\ pc \in {"iterGencodeBed", "error"}
        /\ canonRows = <<>> /\ bedRows = <<>> /\ bedFile = <<>>
        /\ sortedLocs = <<>>

\* the build has ended in error on an input whose first row is one of a
\* known transcript and whose last row is one of an unknown transcript
C12_Witness ==
    /\ cmd = "locs" /\ pc = "error"
    /\ Len(compLines) >= 2
    /\ CompRowOf(compLines[1])[2] \in DOMAIN TransToGene
    /\ CompRowOf(compLines[Len(compLines)])[2] \notin DOMAIN TransToGene
    /\ bedRows = <<>> /\ bedFile = <<>>

----------------------------------------------------------------------------
(* guessGencode: properties *)

\* parseGenes has returned
GenesParsed ==
    /\ cmd \in {"index", "guess"}
    /\ pc \in {"parseSignatures", "guessGencodeVersion", "done", "error"}

\* C13: when the input gene list yields no identifier, guessGencode ends in
\* the error state, whether or not an organism was given: no identifier
\* type is guessed, no signature file is read, and no best release is
\* computed or printed.
C13_EmptyInputIsAnError ==
    (GenesParsed /\ fileGenes = {}) =>
        /\ pc = "error"
        /\ geneIdType = None /\ universe = None
        /\ bestVersion = None /\ printed = None

\* a guess with the organism given has ended in error on an empty input
C13_Witness ==
    /\ cmd = "guess" /\ pc = "error"
    /\ org = "human"
    /\ fileGenes = {}
    /\ printed = None


\* parseSignatures has been called
Loaded ==
    /\ cmd \in {"index", "guess"}
    /\ pc \in {"guessGencodeVersion", "done"}

\* C16 as stated: with an organism given, the signature universe that is
\* loaded (organism and identifier type) is the same for every non-empty
\* input set and every element of it that guessGeneIdType may inspect.
C16_UniverseIndependentOfInput ==
    (Loaded /\ org # None) =>
        \A genes \in InputSets \ {{}} : \A gene1 \in FirstGenes(genes) :
            UniverseOf(org, GeneIdTypeOf(gene1)) = universe

\* C16 as amended: with an organism given, the organism of the loaded
\* universe is the given one for every non-empty input set and every
\* inspected element; without one it is the guessed organism. The
\* identifier type of the loaded universe is in both cases the one
\* guessGeneIdType derives from an element of the input.
C16_OrganismIndependentOfInput ==
    Loaded =>
        /\ org # None =>
                \A genes \in InputSets \ {{}} : \A gene1 \in FirstGenes(genes) :
                    UniverseOf(org, GeneIdTypeOf(gene1))[1] = universe[1]
        /\ universe[1] = IF org = None THEN geneIdType[1] ELSE org
        /\ universe[2] = geneIdType[2]
        /\ \E gene1 \in fileGenes : geneIdType = GeneIdTypeOf(gene1)

\* with the organism human given and the input {A, ENSG1} the gene ID
\* universe of human was loaded: the inspected element was ENSG1, and the
\* organism guessed from an element of another input is mouse
C16_Witness ==
    /\ cmd = "guess" /\ pc = "done"
    /\ org = "human"
    /\ fileGenes = {<<"A">>, ENSG1}
    /\ universe = <<"human", "ids">>
    /\ GeneIdTypeOf(Ac)[1] = "mouse"
    /\ printed = <<"human", <<"1", "9">>>>


----------------------------------------------------------------------------
(* Canonical transcript selector: blocks and malformed rows *)

\* the positions of the non-empty entries of an exon start list
ExonEntries(row) ==
    LET starts == Split(row[10], COMMA)
    IN SelectSeq([i \in DOMAIN starts |-> i], LAMBDA i : starts[i] # <<>>)

\* the block lengths, and the block starts as offsets from the transcript
\* start, of the non-empty exon entries of row
OffsetBlocks(row) ==
    LET starts == Split(row[10], COMMA)
        ends == Split(row[11], COMMA)
        at == ExonEntries(row)
    IN <<[k \in DOMAIN at |-> ParseInt(ends[at[k]]) - ParseInt(starts[at[k]])],
         [k \in DOMAIN at |-> ParseInt(starts[at[k]]) - ParseInt(row[5])]>>

\* C14: in the output row of a gene the block lengths are exonEnd minus
\* exonStart of the non-empty exon entries of the selected transcript, in
\* their order, and the block starts are the offsets exonStart minus txStart
\* of the same entries: both lists have one entry per non-empty exon start
\* and none for an empty trailing entry.
C14_BlocksAreLengthsAndOffsets ==
    Yielding =>
        \A g \in DOMAIN canonRows : \A i \in YieldedFor(g) :
            LET blocks == OffsetBlocks(canonRows[g])
            IN /\ bedRows[i][10] =
                    Join([k \in DOMAIN blocks[1] |-> IntToStr(blocks[1][k])], COMMA)
               /\ bedRows[i][11] =
                    Join([k \in DOMAIN blocks[2] |-> IntToStr(blocks[2][k])], COMMA)


\* whether a transcript row of the input has fewer than 16 fields
HasShortRow == \E r \in InputRows : Len(r) < 16

\* C15: an input with a transcript row of fewer than 16 fields never gets
\* past the canonical transcript selector: the build ends in the error
\* state, also when the short row is not the one selected for its gene, and
\* no output is completed with the row skipped or accepted.
C15_ShortRowIsAnError ==
    (cmd = "locs" /\ HasShortRow) =>
        pc \in {"iterGencodeBed", "pickTranscript", "error"}

====
